---------------------------- MODULE Spec2Model ----------------------------
(***************************************************************************)
(* A model of src/index.ts: eight stand-alone example functions.  The      *)
(* synchronous functions are modelled as operators computed the way the    *)
(* code computes them (index loops for filter/forEach, a per-character     *)
(* case map for toUpperCase/toLowerCase) and are driven by one action per  *)
(* function, which records the call in `call'.  squareAsync is modelled    *)
(* with the timer queue, the promise made on line 94, the promise the      *)
(* async function returns, and the microtask queue that links the two.     *)
(*                                                                         *)
(* Numbers are modelled as integers: NaN, infinities and fractions are     *)
(* outside the model.                                                      *)
(***************************************************************************)
EXTENDS Integers, Sequences, FiniteSets, TLC

VARIABLES
    call,                \* the last synchronous call: function, arguments, arguments after, result
    items,               \* the binding `items' of concatenateArrays (line 16), as the last call left it
    heightPriceProdect,  \* the binding of getMostExpensiveProduct (line 65), as the last call left it
    calls,               \* the squareAsync calls made so far, in call order
    timers,              \* the pending setTimeout callbacks (indices into calls), in firing order
    jobs                 \* the microtask queue

vars == <<call, items, heightPriceProdect, calls, timers, jobs>>

syncVars == <<call, items, heightPriceProdect>>

asyncVars == <<calls, timers, jobs>>

---------------------------------------------------------------------------
(* Bounds of the model.                                                    *)

MaxStrLen == 2

MaxLen == 3

MaxArrays == 3

MaxTotal == 3

MaxN == 2

MaxCalls == 3

---------------------------------------------------------------------------
(* Values.                                                                 *)

null == [type |-> "null"]

undefined == [type |-> "undefined"]

Bool(b) == [type |-> "boolean", value |-> b]

RECURSIVE SeqsUpTo(_, _)
SeqsUpTo(S, n) ==
    IF n = 0 THEN {<<>>}
    ELSE LET shorter == SeqsUpTo(S, n - 1)
         IN  shorter \cup {Append(s, x) : s \in {t \in shorter : Len(t) = n - 1}, x \in S}

---------------------------------------------------------------------------
(* No call is running and no result is held.                               *)

idle == [fn |-> "none"]

\* The caller drops the result: arguments and results are transient.
Return ==
    /\ call # idle
    /\ call' = idle
    /\ UNCHANGED <<items, heightPriceProdect, asyncVars>>

---------------------------------------------------------------------------
(* formatString, lines 1-7.  A string is a sequence of characters.         *)

Chars == {"a", "A", "b", "B", "1"}

UpperOf(c) == CASE c = "a" -> "A" [] c = "b" -> "B" [] OTHER -> c

LowerOf(c) == CASE c = "A" -> "a" [] c = "B" -> "b" [] OTHER -> c

toUpperCase(input) == [i \in 1..Len(input) |-> UpperOf(input[i])]

toLowerCase(input) == [i \in 1..Len(input) |-> LowerOf(input[i])]

\* a ?? b: b when a is null or undefined, else a
Coalesce(a, b) == IF a = null \/ a = undefined THEN b ELSE a

DefaultsToLower(input, toUpper) ==
    IF Coalesce(toUpper, Bool(FALSE)).value THEN toUpperCase(input) ELSE toLowerCase(input)

formatString(input, toUpper) ==
    IF Coalesce(toUpper, Bool(TRUE)).value THEN toUpperCase(input) ELSE toLowerCase(input)

Strings == SeqsUpTo(Chars, MaxStrLen)

Flags == {Bool(TRUE), Bool(FALSE), undefined}

CallFormatString ==
    /\ call = idle
    /\ \E input \in Strings, toUpper \in Flags :
         call' = [fn |-> "formatString", args |-> <<input, toUpper>>,
                  after |-> <<input, toUpper>>, ret |-> formatString(input, toUpper)]
    /\ UNCHANGED <<items, heightPriceProdect, asyncVars>>

---------------------------------------------------------------------------
(* filterByRating, lines 9-13.  Array.prototype.filter visits the indices  *)
(* in ascending order and appends to a new array each element for which    *)
(* the callback is true; it does not write to the array it is called on.   *)

Titles == {"x", "y"}

Ratings == {3, 4, 5}

RatedItems == [title : Titles, rating : Ratings]

RatedLists == SeqsUpTo(RatedItems, MaxLen)

AtLeast4(item) == item.rating >= 4

keepItem(item) == item.rating > 4

RECURSIVE filterLoop(_, _, _)
filterLoop(list, k, kept) ==
    IF k > Len(list) THEN kept
    ELSE filterLoop(list, k + 1, IF keepItem(list[k]) THEN Append(kept, list[k]) ELSE kept)

filterByRating(list) == filterLoop(list, 1, <<>>)

\* the argument array after the call
itemsAfterFilter(list) == list

CallFilterByRating ==
    /\ call = idle
    /\ \E list \in RatedLists :
         call' = [fn |-> "filterByRating", args |-> <<list>>,
                  after |-> <<itemsAfterFilter(list)>>, ret |-> filterByRating(list)]
    /\ UNCHANGED <<items, heightPriceProdect, asyncVars>>

---------------------------------------------------------------------------
(* concatenateArrays, lines 15-19.  `stale' is what the previous call left *)
(* in the binding `items'; line 16 makes a new empty array on every call.  *)

Elems == {"u", "v"}

RECURSIVE TotalLen(_)
TotalLen(arrays) ==
    IF arrays = <<>> THEN 0 ELSE Len(Head(arrays)) + TotalLen(Tail(arrays))

\* the lists of at most k arrays holding at most t elements in all
RECURSIVE ArrayListsOf(_, _)
ArrayListsOf(k, t) ==
    IF k = 0 THEN {<<>>}
    ELSE {<<>>} \cup UNION {{<<first>> \o rest : rest \in ArrayListsOf(k - 1, t - Len(first))} :
                              first \in SeqsUpTo(Elems, t)}

ArrayLists == ArrayListsOf(MaxArrays, MaxTotal)

StaleItems(stale) == stale

newItems(stale) == <<>>

PushFront(target, item) == item \o target

\* items.push(...item)
push(target, item) == target \o item

RECURSIVE forEachPush(_, _, _)
forEachPush(arrays, k, acc) ==
    IF k > Len(arrays) THEN acc
    ELSE forEachPush(arrays, k + 1, push(acc, arrays[k]))

concatenateArrays(arrays, stale) == forEachPush(arrays, 1, newItems(stale))

\* the argument arrays after the call: push writes to `items' only
arraysAfterConcat(arrays) == arrays

CallConcatenateArrays ==
    /\ call = idle
    /\ \E arrays \in ArrayLists :
         /\ items' = concatenateArrays(arrays, items)
         /\ call' = [fn |-> "concatenateArrays", args |-> arrays,
                     after |-> arraysAfterConcat(arrays), ret |-> items']
    /\ UNCHANGED <<heightPriceProdect, asyncVars>>

---------------------------------------------------------------------------
(* processValue, lines 48-54.  A value carries its runtime kind.           *)

Str(s) == [type |-> "string", value |-> s]

Num(n) == [type |-> "number", value |-> n]

typeof(value) == value.type

Hello == <<"h", "e", "l", "l", "o">>

Values ==
    {Str(s) : s \in Strings \cup {Hello}} \cup {Num(n) : n \in (-MaxN)..MaxN \cup {10}}

NumberPlus2(value) ==
    IF typeof(value) = "string" THEN Len(value.value) ELSE value.value + 2

processValue(value) ==
    IF typeof(value) = "string" THEN Len(value.value) ELSE value.value * 2

CallProcessValue ==
    /\ call = idle
    /\ \E value \in Values :
         call' = [fn |-> "processValue", args |-> <<value>>,
                  after |-> <<value>>, ret |-> processValue(value)]
    /\ UNCHANGED <<items, heightPriceProdect, asyncVars>>

---------------------------------------------------------------------------
(* getMostExpensiveProduct, lines 61-73.  `stale' is what the previous     *)
(* call left in the binding `heightPriceProdect'; line 65 sets it to the   *)
(* first product on every call with a non-empty array.                     *)

Names == {"p", "q"}

Prices == {1, 2, 3}

Products == [name : Names, price : Prices]

ProductLists == SeqsUpTo(Products, MaxLen)

LaterOnTie(product, current) == product.price >= current.price

isHigher(product, current) == product.price > current.price

RECURSIVE forEachMax(_, _, _)
forEachMax(products, k, current) ==
    IF k > Len(products) THEN current
    ELSE forEachMax(products, k + 1,
                    IF isHigher(products[k], current) THEN products[k] ELSE current)

\* the binding after lines 65-70
scanProducts(products, stale) == forEachMax(products, 1, products[1])

\* products[0] of an empty array is undefined
NoEmptyGuard(products, stale) ==
    IF Len(products) = 0 THEN undefined ELSE scanProducts(products, stale)

getMostExpensiveProduct(products, stale) ==
    IF Len(products) = 0 THEN null ELSE scanProducts(products, stale)

\* the argument array after the call: forEach only reads it
productsAfterScan(products) == products

CallGetMostExpensiveProduct ==
    /\ call = idle
    /\ \E products \in ProductLists :
         /\ heightPriceProdect' =
                IF Len(products) = 0 THEN heightPriceProdect
                ELSE scanProducts(products, heightPriceProdect)
         /\ call' = [fn |-> "getMostExpensiveProduct", args |-> <<products>>,
                     after |-> <<productsAfterScan(products)>>,
                     ret |-> getMostExpensiveProduct(products, heightPriceProdect)]
    /\ UNCHANGED <<items, asyncVars>>

---------------------------------------------------------------------------
(* enum Day and getDayType, lines 75-91.                                   *)

Monday == 0

Tuesday == 1

Wednesday == 2

Thursday == 3

Friday == 4

Saturday == 5

Sunday == 6

Day == {Monday, Tuesday, Wednesday, Thursday, Friday, Saturday, Sunday}

SaturdayOnly(day) == IF day = Saturday THEN "Weekend" ELSE "Weekday"

getDayType(day) == IF day = Saturday \/ day = Sunday THEN "Weekend" ELSE "Weekday"

CallGetDayType ==
    /\ call = idle
    /\ \E day \in Day :
         call' = [fn |-> "getDayType", args |-> <<day>>,
                  after |-> <<day>>, ret |-> getDayType(day)]
    /\ UNCHANGED <<items, heightPriceProdect, asyncVars>>

---------------------------------------------------------------------------
(* squareAsync, lines 93-103.  Each call makes a promise on line 94        *)
(* (`inner') whose executor only schedules the timer, and returns the      *)
(* async function's own promise (`outer'), which is resolved with `inner': *)
(* a microtask subscribes `outer' to `inner', and when `inner' settles a   *)
(* second microtask settles `outer' the same way.  All timers have the     *)
(* same delay, so they fire in the order they were set.  The microtask     *)
(* queue is drained before the next timer callback runs.                   *)

Pending == [state |-> "pending"]

Fulfilled(v) == [state |-> "fulfilled", value |-> v]

Rejected(r) == [state |-> "rejected", reason |-> r]

NegativeError == "Error: Negative number not allowed"

\* resolve and reject of a promise: no effect once it is settled
resolve(promise, v) == IF promise.state = "pending" THEN Fulfilled(v) ELSE promise

reject(promise, r) == IF promise.state = "pending" THEN Rejected(r) ELSE promise

RECURSIVE Pow(_, _)
Pow(b, e) == IF e = 0 THEN 1 ELSE b * Pow(b, e - 1)

EagerSignCheck(n) == IF n < 0 THEN reject(Pending, NegativeError) ELSE Pending

\* the promise of line 94 when its executor returns: setTimeout was called, nothing else
executor(n) == Pending

RejectsZero(n, promise) ==
    IF n <= 0 THEN reject(promise, NegativeError) ELSE resolve(promise, Pow(n, 2))

\* the callback of lines 95-101, run on the promise of line 94
timerCallback(n, promise) ==
    IF n < 0 THEN reject(promise, NegativeError) ELSE resolve(promise, Pow(n, 2))

Inputs == (-MaxN)..MaxN

CallSquareAsync ==
    /\ Len(calls) < MaxCalls
    /\ \E n \in Inputs :
         LET i == Len(calls) + 1
         IN  /\ calls' = Append(calls, [n |-> n, inner |-> executor(n),
                                        outer |-> Pending, linked |-> FALSE])
             /\ timers' = Append(timers, i)
             /\ jobs' = Append(jobs, [kind |-> "then", of |-> i])
    /\ UNCHANGED syncVars

TimerFires ==
    /\ timers # <<>>
    /\ jobs = <<>>
    /\ LET i == Head(timers)
           settled == timerCallback(calls[i].n, calls[i].inner)
       IN  /\ calls' = [calls EXCEPT ![i].inner = settled]
           /\ jobs' = IF calls[i].linked /\ calls[i].inner.state = "pending"
                      THEN <<[kind |-> "reaction", of |-> i]>>
                      ELSE <<>>
    /\ timers' = Tail(timers)
    /\ UNCHANGED syncVars

RunJob ==
    /\ jobs # <<>>
    /\ LET job == Head(jobs)
           i == job.of
       IN  IF job.kind = "then"
           THEN /\ calls' = [calls EXCEPT ![i].linked = TRUE]
                /\ jobs' = IF calls[i].inner.state # "pending"
                           THEN Append(Tail(jobs), [kind |-> "reaction", of |-> i])
                           ELSE Tail(jobs)
           ELSE /\ calls' = [calls EXCEPT ![i].outer =
                                IF @.state = "pending" THEN calls[i].inner ELSE @]
                /\ jobs' = Tail(jobs)
    /\ UNCHANGED <<timers, syncVars>>

---------------------------------------------------------------------------

Init ==
    /\ call = idle
    /\ items = <<>>
    /\ heightPriceProdect = null
    /\ calls = <<>>
    /\ timers = <<>>
    /\ jobs = <<>>

Next ==
    \/ CallFormatString
    \/ CallFilterByRating
    \/ CallConcatenateArrays
    \/ CallProcessValue
    \/ CallGetMostExpensiveProduct
    \/ CallGetDayType
    \/ Return

Spec == Init /\ [][Next]_vars

NextAsync ==
    \/ CallSquareAsync
    \/ TimerFires
    \/ RunJob

SpecAsync == Init /\ [][NextAsync]_vars

\* A set timer fires after its delay, and the event loop runs every queued microtask.
FairAsync == SpecAsync /\ WF_vars(TimerFires) /\ WF_vars(RunJob)

---------------------------------------------------------------------------
(* Properties.                                                             *)

Settled(promise) == promise.state # "pending"

OutcomeBySign(n, promise) ==
    /\ n < 0 => /\ promise.state # "fulfilled"
                /\ promise.state = "rejected" => promise.reason = NegativeError
    /\ n >= 0 => /\ promise.state # "rejected"
                 /\ promise.state = "fulfilled" => promise.value = n * n

(* C1: a settled squareAsync(n) is rejected with "Error: Negative number   *)
(* not allowed" when n < 0 and fulfilled with n * n when n >= 0 (n = 0     *)
(* included); no input gets the other outcome.  This is so of the promise  *)
(* made on line 94 and of the promise the caller receives.                 *)
SquareAsyncOutcome ==
    \A i \in 1..Len(calls) :
        /\ OutcomeBySign(calls[i].n, calls[i].inner)
        /\ OutcomeBySign(calls[i].n, calls[i].outer)

\* squareAsync(-1) has been rejected and squareAsync(0) fulfilled with 0
SquareAsyncOutcomeWitness ==
    \E i, j \in 1..Len(calls) :
        /\ calls[i].n = -1 /\ calls[i].outer = Rejected(NegativeError)
        /\ calls[j].n = 0 /\ calls[j].outer = Fulfilled(0)

Min(S) == CHOOSE x \in S : \A y \in S : x <= y

FirstMaxIndex(products) ==
    Min({i \in 1..Len(products) :
            \A j \in 1..Len(products) : products[i].price >= products[j].price})

(* C2: for a non-empty array getMostExpensiveProduct returns an element of *)
(* the array whose price is at least every element's price, and among the  *)
(* elements with the highest price the one at the lowest index.            *)
MostExpensiveIsFirstMax ==
    (call.fn = "getMostExpensiveProduct" /\ Len(call.args[1]) > 0) =>
        LET products == call.args[1]
        IN  /\ \E i \in 1..Len(products) : call.ret = products[i]
            /\ \A i \in 1..Len(products) : call.ret.price >= products[i].price
            /\ call.ret = products[FirstMaxIndex(products)]

\* a tie on the highest price after a cheaper first element: the earlier of the two is returned
MostExpensiveIsFirstMaxWitness ==
    /\ call.fn = "getMostExpensiveProduct"
    /\ call.args[1] = <<[name |-> "p", price |-> 1], [name |-> "q", price |-> 3],
                        [name |-> "p", price |-> 3]>>
    /\ call.ret = [name |-> "q", price |-> 3]

(* C3: getMostExpensiveProduct returns null exactly when the array is      *)
(* empty; every non-empty array gives a product.                           *)
NullIffEmpty ==
    call.fn = "getMostExpensiveProduct" =>
        /\ (call.ret = null) <=> (Len(call.args[1]) = 0)
        /\ Len(call.args[1]) > 0 => call.ret \in Products

\* the empty array has been passed and null returned
NullIffEmptyWitness ==
    /\ call.fn = "getMostExpensiveProduct"
    /\ call.args[1] = <<>>
    /\ call.ret = null

KeptIndices(list) == {i \in 1..Len(list) : list[i].rating > 4}

NthKept(list, k) ==
    CHOOSE i \in KeptIndices(list) : Cardinality({j \in KeptIndices(list) : j <= i}) = k

(* C4: filterByRating returns exactly the records with rating > 4 (a       *)
(* rating of exactly 4 is dropped), each once, in their input order.       *)
FilterKeepsAbove4InOrder ==
    call.fn = "filterByRating" =>
        LET list == call.args[1]
        IN  /\ Len(call.ret) = Cardinality(KeptIndices(list))
            /\ \A k \in 1..Len(call.ret) : call.ret[k] = list[NthKept(list, k)]

\* a record rated 4 between two records rated 5 is dropped and the two keep their order
FilterKeepsAbove4InOrderWitness ==
    /\ call.fn = "filterByRating"
    /\ call.args[1] = <<[title |-> "y", rating |-> 5], [title |-> "x", rating |-> 4],
                        [title |-> "x", rating |-> 5]>>
    /\ call.ret = <<[title |-> "y", rating |-> 5], [title |-> "x", rating |-> 5]>>

Offset(arrays, j) == TotalLen(SubSeq(arrays, 1, j - 1))

(* C5: for any number of arrays, zero included, concatenateArrays returns  *)
(* an array whose length is the sum of the lengths and which holds the     *)
(* elements of the first array in order, then those of the second, and so  *)
(* on; no arrays, or only empty ones, give the empty array.                *)
ConcatenationInOrder ==
    call.fn = "concatenateArrays" =>
        LET arrays == call.args
        IN  /\ Len(call.ret) = TotalLen(arrays)
            /\ \A j \in 1..Len(arrays) : \A i \in 1..Len(arrays[j]) :
                   call.ret[Offset(arrays, j) + i] = arrays[j][i]
            /\ (\A j \in 1..Len(arrays) : arrays[j] = <<>>) => call.ret = <<>>

\* three arrays, the middle one empty
ConcatenationInOrderWitness ==
    /\ call.fn = "concatenateArrays"
    /\ call.args = <<<<"u">>, <<>>, <<"v", "u">>>>
    /\ call.ret = <<"u", "v", "u">>

(* C6: formatString returns the upper-cased input when toUpper is true or  *)
(* omitted and the lower-cased input when it is false.                     *)
FormatStringCase ==
    call.fn = "formatString" =>
        LET input == call.args[1]
            toUpper == call.args[2]
        IN  /\ (toUpper = Bool(TRUE) \/ toUpper = undefined) => call.ret = toUpperCase(input)
            /\ toUpper = Bool(FALSE) => call.ret = toLowerCase(input)

\* the flag is omitted and a mixed-case input comes back in upper case
FormatStringCaseWitness ==
    /\ call.fn = "formatString"
    /\ call.args = <<<<"a", "B">>, undefined>>
    /\ call.ret = <<"A", "B">>

(* C7: getDayType returns "Weekend" exactly for Saturday and Sunday and    *)
(* "Weekday" for the five other days.                                      *)
WeekendIffSaturdayOrSunday ==
    call.fn = "getDayType" =>
        /\ call.ret \in {"Weekend", "Weekday"}
        /\ (call.ret = "Weekend") <=> (call.args[1] \in {Saturday, Sunday})

\* Sunday has been classified
WeekendIffSaturdayOrSundayWitness ==
    /\ call.fn = "getDayType"
    /\ call.args[1] = Sunday
    /\ call.ret = "Weekend"

(* C8: processValue returns the length of a string and twice a number;     *)
(* "hello" gives 5 and 10 gives 20.                                        *)
LengthOrDouble ==
    call.fn = "processValue" =>
        LET value == call.args[1]
        IN  /\ value.type = "string" => call.ret = Len(value.value)
            /\ value.type = "number" => call.ret = value.value + value.value
            /\ value = Str(Hello) => call.ret = 5
            /\ value = Num(10) => call.ret = 20

\* the README's numeric example
LengthOrDoubleWitness ==
    /\ call.fn = "processValue"
    /\ call.args[1] = Num(10)
    /\ call.ret = 20

TimerSet(i) == \E k \in 1..Len(timers) : timers[k] = i

\* while a call's timer has not fired, both of its promises are pending, and it has one timer
PendingUntilTimerFires ==
    \A i \in 1..Len(calls) :
        /\ TimerSet(i) => ~Settled(calls[i].inner) /\ ~Settled(calls[i].outer)
        /\ Cardinality({k \in 1..Len(timers) : timers[k] = i}) <= 1

\* the promise of line 94 is settled only by the step in which the call's own timer fires
SettledByItsTimerOnly ==
    \A i \in 1..Len(calls) :
        (~Settled(calls[i].inner) /\ Settled(calls'[i].inner)) =>
            (timers # <<>> /\ Head(timers) = i /\ timers' = Tail(timers))

\* a settled promise keeps its state and its value
SettledOnce ==
    \A i \in 1..Len(calls) :
        /\ Settled(calls[i].inner) => calls'[i].inner = calls[i].inner
        /\ Settled(calls[i].outer) => calls'[i].outer = calls[i].outer

(* C9: the promise squareAsync returns is pending until the call's single  *)
(* timer callback fires, for a negative n as for any other; the settlement *)
(* is made only by that callback; a settled promise never changes; and,    *)
(* timers and microtasks being run, every call is eventually settled.      *)
SquareAsyncTiming ==
    /\ []PendingUntilTimerFires
    /\ [][SettledByItsTimerOnly /\ SettledOnce]_vars
    /\ \A i \in 1..MaxCalls :
           (Len(calls) >= i) ~> (Len(calls) >= i /\ Settled(calls[i].outer))

\* a negative call has been rejected after its timer fired while a later call still waits
SquareAsyncTimingWitness ==
    \E i, j \in 1..Len(calls) :
        /\ calls[i].n < 0 /\ ~TimerSet(i) /\ calls[i].outer.state = "rejected"
        /\ TimerSet(j) /\ ~Settled(calls[j].outer)

\* what the call would have returned had it been the program's first call
FirstCallResult ==
    CASE call.fn = "formatString" -> formatString(call.args[1], call.args[2])
      [] call.fn = "filterByRating" -> filterByRating(call.args[1])
      [] call.fn = "concatenateArrays" -> concatenateArrays(call.args, <<>>)
      [] call.fn = "processValue" -> processValue(call.args[1])
      [] call.fn = "getMostExpensiveProduct" -> getMostExpensiveProduct(call.args[1], null)
      [] call.fn = "getDayType" -> getDayType(call.args[1])

===========================================================================
